---- MODULE Spec2Model ----
(***************************************************************************)
(* The quiz session state machine of quiz-sayang: a Streamlit MCQ quiz.    *)
(* The main specification, Spec, models "quiz_app (2).py" (the first       *)
(* program of src/unnamed/part_000; "quiz_app (3).py" in the same file and *)
(* src/quiz_app.py carry the same session code).  Every user interaction   *)
(* reruns the script; one action below is one such script run, including   *)
(* the rerun that st.rerun() triggers at the end of a handler.             *)
(***************************************************************************)
EXTENDS Integers, Sequences, FiniteSets, TLC

VARIABLES
    df,               \* the loaded question table (module-level df)
    screen,           \* st.session_state.screen
    q_indices,        \* st.session_state.q_indices
    idx,              \* st.session_state.idx
    answers,          \* st.session_state.answers   (dict gid -> letter)
    correct_map,      \* st.session_state.correct_map
    score,            \* st.session_state.score
    finished,         \* st.session_state.finished
    mode,             \* st.session_state.mode
    submitted,        \* st.session_state.submitted (keys mapped to True)
    scored,           \* st.session_state.scored
    flags,            \* st.session_state.flags
    opt_order,        \* st.session_state.opt_order
    shuffle_options,  \* st.session_state.shuffle_options
    msg,              \* the feedback the last script run emitted
    review,           \* the review table the last results render built
    last_op,          \* history: the handler the last script run executed, its input
    ever_correct      \* history: ids submitted correctly since Start/Restart

vars == <<df, screen, q_indices, idx, answers, correct_map, score, finished,
          mode, submitted, scored, flags, opt_order, shuffle_options, msg,
          review, last_op, ever_correct>>

----------------------------------------------------------------------------
(* Bounds of the model. *)

\* the largest number of rows of the question file
MaxTotal == 2

\* the largest score the model follows (quiz_app_v2.py never stops counting)
MaxScore == 3

----------------------------------------------------------------------------
(* Small helpers for Python values. *)

Min(a, b) == IF a <= b THEN a ELSE b

Max(a, b) == IF a >= b THEN a ELSE b

Range(s) == {s[i] : i \in 1..Len(s)}

\* Python's s[:n]
SliceTo(s, n) ==
    IF n >= 0 THEN SubSeq(s, 1, Min(n, Len(s)))
    ELSE SubSeq(s, 1, Max(0, Len(s) + n))

\* Python's d.get(k, default)
Get(d, k, default) == IF k \in DOMAIN d THEN d[k] ELSE default

\* the empty dict
EmptyDict == [k \in {} |-> ""]

\* d.setdefault(k, v): an earlier value is kept
Put_KeepFirst(d, k, v) ==
    [x \in (DOMAIN d) \cup {k} |-> IF x \in DOMAIN d THEN d[x] ELSE v]

\* d[k] = v
Put(d, k, v) == [x \in (DOMAIN d) \cup {k} |-> IF x = k THEN v ELSE d[x]]

\* every result random.shuffle can leave in a list
Shuffles(s) ==
    LET n == Len(s)
        Bij == {p \in [1..n -> 1..n] : \A i, j \in 1..n : p[i] = p[j] => i = j}
    IN  {[i \in 1..n |-> s[p[i]]] : p \in Bij}

\* str.upper() on the cell values the model uses
Upper(s) ==
    CASE s = "a" -> "A"
      [] s = "b" -> "B"
      [] s = "c" -> "C"
      [] s = "d" -> "D"
      [] s = "e" -> "E"
      [] s = "x" -> "X"
      [] OTHER   -> s

----------------------------------------------------------------------------
(* The question table. *)

LETTERS == <<"A", "B", "C", "D">>

\* Rows of a question file, as read (before load_questions cleans them).
RowKinds == <<
    [Question |-> "q", A |-> "t", B |-> "t", C |-> "",  D |-> "", Correct |-> "A"],
    [Question |-> "q", A |-> "",  B |-> "t", C |-> "t", D |-> "", Correct |-> "b"],
    [Question |-> "q", A |-> "t", B |-> "t", C |-> "",  D |-> "", Correct |-> ""],
    [Question |-> "q", A |-> "t", B |-> "t", C |-> "",  D |-> "", Correct |-> "D"],
    [Question |-> "q", A |-> "t", B |-> "",  C |-> "",  D |-> "", Correct |-> "E"] >>

\* The question files of the model: n consecutive rows of the cycle of row
\* kinds, starting at any kind.
RawTable(off, n) ==
    [i \in 1..n |-> RowKinds[((off + i - 1) % Len(RowKinds)) + 1]]

RawTables ==
    {RawTable(off, n) : off \in 0..(Len(RowKinds) - 1), n \in 1..MaxTotal}

Cell(row, L) ==
    CASE L = "A" -> row.A
      [] L = "B" -> row.B
      [] L = "C" -> row.C
      [] L = "D" -> row.D

\* df["Correct"].str.upper().where(... .isin(list("ABCD")), "")
CoerceCorrect(c) == IF Upper(c) \in Range(LETTERS) THEN Upper(c) ELSE ""

\* load_questions: drop the rows with no question, coerce Correct.
load_questions(raw) ==
    LET kept == SelectSeq(raw, LAMBDA r : r.Question # "")
    IN  [i \in 1..Len(kept) |-> [kept[i] EXCEPT !.Correct = CoerceCorrect(@)]]

\* df.iloc[gid]: ids are 0-based row positions
Row(gid) == df[gid + 1]

\* [L for L in ["A","B","C","D"] if str(row[L]).strip() != ""]
AvailableLetters(row) == SelectSeq(LETTERS, LAMBDA L : Cell(row, L) # "")

----------------------------------------------------------------------------
(* Session values. *)

PRACTICE == "Practice (instant feedback)"

EXAM == "Exam (score at end)"

Modes == {PRACTICE, EXAM}

\* mode.startswith("Practice")
IsPractice(m) == m = PRACTICE

\* mode.startswith("Exam")
IsExam(m) == m = EXAM

NoMsg == [kind |-> "none", letter |-> ""]

\* the record of a script run: the handler and its input (the count asked
\* of Start, the target of a jump, the position of the selected option in
\* the rendered order for a submit, 0 when nothing is selected; for Home, 0
\* for the button of the quiz screen and 1 for the one of the results)
Op(name, arg) == [name |-> name, arg |-> arg]

\* the current question: q_indices[idx]
Gid == q_indices[idx + 1]

\* render_options: the stored option order of the question
render_options(gid) == Get(opt_order, gid, AvailableLetters(Row(gid)))

----------------------------------------------------------------------------
(* init_quiz *)

\* a clamp without the lower bound
ClampCount_NoFloor(num, total) == Min(num, total)

\* num_questions = max(1, min(int(num_questions), total))
ClampCount(num, total) == Max(1, Min(num, total))

\* list(range(total))
Identity(total) == [i \in 1..total |-> i - 1]

\* a selection drawn with replacement (random.choices) when shuffling
Selections_Repeats(num, shuffle_questions) ==
    LET total == Len(df)
        n     == ClampCount(num, total)
    IN  IF shuffle_questions
        THEN [1..n -> 0..(total - 1)]
        ELSE {SliceTo(Identity(total), n)}

\* q_indices after the optional shuffle and the truncation
Selections(num, shuffle_questions) ==
    LET total == Len(df)
        n     == ClampCount(num, total)
        perms == IF shuffle_questions THEN Shuffles(Identity(total))
                 ELSE {Identity(total)}
    IN  {SliceTo(p, n) : p \in perms}

\* an init_quiz that shuffles the options whatever the flag says
OrdersOf_AlwaysShuffles(gid, shuffle_opts) ==
    Shuffles(AvailableLetters(Row(gid)))

\* the orders init_quiz can store for one question
OrdersOf(gid, shuffle_opts) ==
    LET letters == AvailableLetters(Row(gid))
    IN  IF shuffle_opts /\ Len(letters) > 1 THEN Shuffles(letters) ELSE {letters}

\* every opt_order dict init_quiz can build for a selection
OptOrders(q, shuffle_opts) ==
    LET all == UNION {OrdersOf(g, shuffle_opts) : g \in Range(q)}
    IN  {oo \in [Range(q) -> all] : \A g \in Range(q) : oo[g] \in OrdersOf(g, shuffle_opts)}

\* {i: (df.iloc[i]["Correct"] or "").strip().upper() for i in q_indices}
CorrectMapOf(q) == [g \in Range(q) |-> Upper(Row(g).Correct)]

init_quiz(m, num, shuffle_questions, shuffle_opts) ==
    \E q \in Selections(num, shuffle_questions) :
      \E oo \in OptOrders(q, shuffle_opts) :
        /\ q_indices' = q
        /\ idx' = 0
        /\ answers' = EmptyDict
        /\ correct_map' = CorrectMapOf(q)
        /\ score' = 0
        /\ finished' = FALSE
        /\ mode' = m
        /\ screen' = "quiz"
        /\ submitted' = {}
        /\ scored' = {}
        /\ flags' = {}
        /\ opt_order' = oo
        /\ shuffle_options' = shuffle_opts

----------------------------------------------------------------------------
(* render_results: the score and the review table. *)

\* a count of the answered questions instead of the correct ones
CountCorrect_Answered(q, ans, cmap) ==
    Cardinality({i \in 1..Len(q) : q[i] \in DOMAIN ans})

RECURSIVE CountCorrect(_, _, _)
\* the Exam loop: score += 1 for every gid with a key equal to the answer
CountCorrect(q, ans, cmap) ==
    IF q = <<>> THEN 0
    ELSE LET gid     == Head(q)
             chosen  == Get(ans, gid, "")
             correct == Upper(Get(cmap, gid, ""))
         IN  (IF correct # "" /\ chosen = correct THEN 1 ELSE 0)
             + CountCorrect(Tail(q), ans, cmap)

\* an Exam score added to the stored one instead of recomputed from 0
CompiledScore_Accumulate(m, q, ans, cmap, running) ==
    IF IsExam(m) THEN running + CountCorrect(q, ans, cmap) ELSE running

\* the score st.metric shows: recomputed in Exam, the running one otherwise
CompiledScore(m, q, ans, cmap, running) ==
    IF IsExam(m) THEN CountCorrect(q, ans, cmap) ELSE running

\* the status decided with "unanswered" tested before "no key"
Status_UnansweredFirst(chosen, correct) ==
    IF correct # "" /\ chosen = correct THEN "Correct"
    ELSE IF chosen = "" THEN "Unanswered"
    ELSE IF correct = "" THEN "No key"
    ELSE "Incorrect"

\* the status expression of the review table
Status(chosen, correct) ==
    IF correct # "" /\ chosen = correct THEN "Correct"
    ELSE IF chosen # "" /\ correct # "" THEN "Incorrect"
    ELSE IF correct = "" THEN "No key"
    ELSE "Unanswered"

\* one row of the review table (the texts of the row are those of df[gid])
ReviewRow(gid, ans, cmap) ==
    LET chosen  == Get(ans, gid, "")
        correct == Upper(Get(cmap, gid, ""))
    IN  [gid |-> gid, Chosen |-> chosen, Correct |-> correct,
         Status |-> Status(chosen, correct)]

ReviewRows(q, ans, cmap) == [i \in 1..Len(q) |-> ReviewRow(q[i], ans, cmap)]

\* what a run of render_results leaves: the score and the table
render_results(ans) ==
    /\ score' = CompiledScore(mode, q_indices, ans, correct_map, score)
    /\ review' = ReviewRows(q_indices, ans, correct_map)

----------------------------------------------------------------------------
(* Navigation helpers. *)

\* a go_next that ends the session one question early
go_next_Early(ans) ==
    /\ idx' = idx + 1
    /\ IF idx + 1 >= Len(q_indices) - 1
       THEN /\ finished' = TRUE
            /\ screen' = "results"
            /\ render_results(ans)
       ELSE UNCHANGED <<finished, screen, score, review>>

\* go_next, followed by the rerun: on overflow the results screen renders
go_next(ans) ==
    /\ idx' = idx + 1
    /\ IF idx + 1 >= Len(q_indices)
       THEN /\ finished' = TRUE
            /\ screen' = "results"
            /\ render_results(ans)
       ELSE UNCHANGED <<finished, screen, score, review>>

\* a go_prev without the lower bound
PrevIdx_NoFloor(i) == i - 1

\* go_prev
PrevIdx(i) == Max(0, i - 1)

\* a jump_to that trusts its argument
JumpIdx_NoClamp(local_idx, n) == local_idx

\* jump_to
JumpIdx(local_idx, n) == Max(0, Min(local_idx, n - 1))

\* a Next button that is never disabled
DisableNext_Never == FALSE

\* a Next button that stays disabled in Practice, checked or not
DisableNext_Practice == IsPractice(mode)

\* the Next button is disabled in Practice until the question is checked
DisableNext ==
    IF IsPractice(mode) THEN ~(Gid \in submitted) ELSE FALSE

\* the help text of the Next button
HelpTxt ==
    IF IsPractice(mode) /\ ~(Gid \in submitted)
    THEN "Check answer first to proceed." ELSE "None"

\* a go_home without st.session_state.clear(): the session stays behind
go_home_KeepsSession ==
    /\ screen' = "home"
    /\ UNCHANGED <<q_indices, idx, answers, correct_map, score, finished, mode,
                   submitted, scored, flags, opt_order, shuffle_options, review>>

\* go_home: st.session_state.clear(), screen = "home"
go_home ==
    /\ screen' = "home"
    /\ q_indices' = <<>>
    /\ idx' = 0
    /\ answers' = EmptyDict
    /\ correct_map' = EmptyDict
    /\ score' = 0
    /\ finished' = FALSE
    /\ mode' = ""
    /\ submitted' = {}
    /\ scored' = {}
    /\ flags' = {}
    /\ opt_order' = EmptyDict
    /\ shuffle_options' = FALSE
    /\ review' = <<>>

----------------------------------------------------------------------------
(* The answer form. *)

\* correct_letter and chosen_letter == correct_letter
IsCorrect(correct_letter, chosen_letter) ==
    correct_letter # "" /\ chosen_letter = correct_letter

\* the test with its "not" lost
AwardsPoint_Inverted(gid) == gid \in scored

\* if gid not in st.session_state.scored
AwardsPoint(gid) == gid \notin scored

\* a feedback that reports every miss as incorrect, key or no key
Feedback_NoInfo(correct_letter, chosen_letter) ==
    IF IsCorrect(correct_letter, chosen_letter)
    THEN [kind |-> "success", letter |-> chosen_letter]
    ELSE [kind |-> "error", letter |-> correct_letter]

\* the feedback of a Practice check
Feedback(correct_letter, chosen_letter) ==
    IF IsCorrect(correct_letter, chosen_letter)
    THEN [kind |-> "success", letter |-> chosen_letter]
    ELSE IF correct_letter \in Range(LETTERS)
         THEN [kind |-> "error", letter |-> correct_letter]
         ELSE [kind |-> "info", letter |-> ""]

\* a check that scores by the latest answer: a miss takes the point back
CheckAnswer_Latest(gid, chosen_letter) ==
    LET correct_letter == Get(correct_map, gid, "")
    IN  /\ submitted' = submitted \cup {gid}
        /\ msg' = Feedback(correct_letter, chosen_letter)
        /\ IF IsCorrect(correct_letter, chosen_letter)
           THEN /\ scored' = scored \cup {gid}
                /\ score' = IF gid \in scored THEN score ELSE score + 1
           ELSE /\ scored' = scored \ {gid}
                /\ score' = IF gid \in scored THEN score - 1 ELSE score
        /\ ever_correct' = IF IsCorrect(correct_letter, chosen_letter)
                           THEN ever_correct \cup {gid} ELSE ever_correct
        /\ UNCHANGED <<idx, finished, screen, review>>

\* a check that gives the point to the first check of a question only
CheckAnswer_FirstAttemptOnly(gid, chosen_letter) ==
    LET correct_letter == Get(correct_map, gid, "")
    IN  /\ submitted' = submitted \cup {gid}
        /\ msg' = Feedback(correct_letter, chosen_letter)
        /\ IF IsCorrect(correct_letter, chosen_letter) /\ gid \notin submitted
           THEN /\ score' = score + 1
                /\ scored' = scored \cup {gid}
           ELSE UNCHANGED <<score, scored>>
        /\ ever_correct' = IF IsCorrect(correct_letter, chosen_letter)
                           THEN ever_correct \cup {gid} ELSE ever_correct
        /\ UNCHANGED <<idx, finished, screen, review>>

\* the Practice branch of the submit handler
CheckAnswer(gid, chosen_letter) ==
    LET correct_letter == Get(correct_map, gid, "")
    IN  /\ submitted' = submitted \cup {gid}
        /\ msg' = Feedback(correct_letter, chosen_letter)
        /\ IF IsCorrect(correct_letter, chosen_letter) /\ AwardsPoint(gid)
           THEN /\ score' = score + 1
                /\ scored' = scored \cup {gid}
           ELSE UNCHANGED <<score, scored>>
        /\ ever_correct' = IF IsCorrect(correct_letter, chosen_letter)
                           THEN ever_correct \cup {gid} ELSE ever_correct
        /\ UNCHANGED <<idx, finished, screen, review>>

----------------------------------------------------------------------------
(* The actions: one script run each. *)

\* The inputs of init_quiz.  The number widget offers 1..total; init_quiz
\* clamps whatever it is given.
NumInputs == (0 - 1)..(MaxTotal + 1)

\* The inputs of jump_to.  The map offers 0..n-1; jump_to clamps.
JumpInputs == (0 - 1)..MaxTotal

\* render_home: the Start button, with the values of the widgets
StartWith(m, num, sq, so) ==
    /\ screen = "home"
    /\ init_quiz(m, num, sq, so)
    /\ msg' = NoMsg
    /\ review' = <<>>
    /\ ever_correct' = {}
    /\ last_op' = Op("start", num)
    /\ UNCHANGED df

Start ==
    \E m \in Modes, num \in NumInputs, sq \in BOOLEAN, so \in BOOLEAN :
        StartWith(m, num, sq, so)

\* render_quiz: the Home button
QuizHome ==
    /\ screen = "quiz"
    /\ go_home
    /\ msg' = NoMsg
    /\ ever_correct' = {}
    /\ last_op' = Op("home", 0)
    /\ UNCHANGED df

\* jump_to(i), followed by the rerun
JumpTo(i) ==
    /\ screen = "quiz"
    /\ idx' = JumpIdx(i, Len(q_indices))
    /\ last_op' = Op("jump", i)
    /\ msg' = NoMsg
    /\ UNCHANGED <<df, screen, q_indices, answers, correct_map, score, finished,
                   mode, submitted, scored, flags, opt_order, shuffle_options,
                   review, ever_correct>>

\* render_question_map: a jump button
Jump == \E i \in JumpInputs : JumpTo(i)

\* a flag button that only ever adds the flag
ToggleFlag_AddOnly ==
    /\ screen = "quiz"
    /\ flags' = flags \cup {Gid}
    /\ msg' = NoMsg
    /\ last_op' = Op("flag", 0)
    /\ UNCHANGED <<df, screen, q_indices, idx, answers, correct_map, score,
                   finished, mode, submitted, scored, opt_order,
                   shuffle_options, review, ever_correct>>

\* render_quiz: the Flag / Unflag button
ToggleFlag ==
    /\ screen = "quiz"
    /\ flags' = IF Gid \in flags THEN flags \ {Gid} ELSE flags \cup {Gid}
    /\ msg' = NoMsg
    /\ last_op' = Op("flag", 0)
    /\ UNCHANGED <<df, screen, q_indices, idx, answers, correct_map, score,
                   finished, mode, submitted, scored, opt_order,
                   shuffle_options, review, ever_correct>>

\* the radio has no selection: no earlier answer to preselect, none chosen
NoChoice ==
    IF Gid \in DOMAIN answers
    THEN answers[Gid] \notin Range(render_options(Gid))
    ELSE TRUE

\* a submit without selection that warns and, in Exam, still calls go_next
SubmitNoSelection_Advances ==
    /\ screen = "quiz"
    /\ NoChoice
    /\ msg' = [kind |-> "warning", letter |-> ""]
    /\ last_op' = Op("submit", 0)
    /\ IF IsPractice(mode)
       THEN UNCHANGED <<idx, finished, screen, score, review>>
       ELSE go_next(answers)
    /\ UNCHANGED <<df, q_indices, answers, correct_map, mode, submitted, scored,
                   flags, opt_order, shuffle_options, ever_correct>>

\* the form is submitted with nothing selected: st.warning, st.stop
SubmitNoSelection ==
    /\ screen = "quiz"
    /\ NoChoice
    /\ msg' = [kind |-> "warning", letter |-> ""]
    /\ last_op' = Op("submit", 0)
    /\ UNCHANGED <<df, screen, q_indices, idx, answers, correct_map, score,
                   finished, mode, submitted, scored, flags, opt_order,
                   shuffle_options, review, ever_correct>>

\* a check that records the letter of the display position, not the letter
\* the option order maps it to
SubmitPractice_DisplayLetter ==
    /\ screen = "quiz"
    /\ IsPractice(mode)
    /\ \E c \in 1..Len(render_options(Gid)) :
         LET chosen_letter == LETTERS[c]
         IN  /\ answers' = Put(answers, Gid, chosen_letter)
             /\ CheckAnswer(Gid, chosen_letter)
             /\ last_op' = Op("submit", c)
    /\ UNCHANGED <<df, q_indices, correct_map, mode, flags, opt_order,
                   shuffle_options>>

\* a check that marks and scores the question without recording the answer
SubmitPractice_NoRecord ==
    /\ screen = "quiz"
    /\ IsPractice(mode)
    /\ \E c \in 1..Len(render_options(Gid)) :
         LET chosen_letter == render_options(Gid)[c]
         IN  /\ CheckAnswer(Gid, chosen_letter)
             /\ last_op' = Op("submit", c)
    /\ UNCHANGED <<df, q_indices, correct_map, mode, flags, opt_order,
                   shuffle_options, answers>>

\* Practice: Check Answer with a selected option
SubmitPractice ==
    /\ screen = "quiz"
    /\ IsPractice(mode)
    /\ \E c \in 1..Len(render_options(Gid)) :
         LET chosen_letter == render_options(Gid)[c]
         IN  /\ answers' = Put(answers, Gid, chosen_letter)
             /\ CheckAnswer(Gid, chosen_letter)
             /\ last_op' = Op("submit", c)
    /\ UNCHANGED <<df, q_indices, correct_map, mode, flags, opt_order,
                   shuffle_options>>

\* an Exam submit that saves the answer and stays on the question
SubmitExam_NoAdvance ==
    /\ screen = "quiz"
    /\ ~IsPractice(mode)
    /\ \E c \in 1..Len(render_options(Gid)) :
         /\ answers' = Put(answers, Gid, render_options(Gid)[c])
         /\ last_op' = Op("submit", c)
    /\ msg' = NoMsg
    /\ UNCHANGED <<df, q_indices, idx, finished, screen, score, review,
                   correct_map, mode, submitted, scored, flags, opt_order,
                   shuffle_options, ever_correct>>

\* an Exam submit that marks the question checked and scored before go_next
SubmitExam_Checks ==
    /\ screen = "quiz"
    /\ ~IsPractice(mode)
    /\ \E c \in 1..Len(render_options(Gid)) :
         LET chosen_letter == render_options(Gid)[c]
         IN  /\ answers' = Put(answers, Gid, chosen_letter)
             /\ submitted' = submitted \cup {Gid}
             /\ scored' = IF IsCorrect(Get(correct_map, Gid, ""), chosen_letter)
                          THEN scored \cup {Gid} ELSE scored
             /\ go_next(Put(answers, Gid, chosen_letter))
             /\ last_op' = Op("submit", c)
    /\ msg' = NoMsg
    /\ UNCHANGED <<df, q_indices, correct_map, mode, flags, opt_order,
                   shuffle_options, ever_correct>>

\* Exam: Save Answer with a selected option, then go_next
SubmitExam ==
    /\ screen = "quiz"
    /\ ~IsPractice(mode)
    /\ \E c \in 1..Len(render_options(Gid)) :
         LET chosen_letter == render_options(Gid)[c]
         IN  /\ answers' = Put(answers, Gid, chosen_letter)
             /\ go_next(Put(answers, Gid, chosen_letter))
             /\ last_op' = Op("submit", c)
    /\ msg' = NoMsg
    /\ UNCHANGED <<df, q_indices, correct_map, mode, submitted, scored, flags,
                   opt_order, shuffle_options, ever_correct>>

\* a Previous button that the results screen offers too
Previous_OnResults ==
    /\ screen \in {"quiz", "results"}
    /\ idx' = PrevIdx(idx)
    /\ msg' = NoMsg
    /\ last_op' = Op("prev", 0)
    /\ UNCHANGED <<df, screen, q_indices, answers, correct_map, score, finished,
                   mode, submitted, scored, flags, opt_order, shuffle_options,
                   review, ever_correct>>

\* a Previous that forgets the answer of the question it leaves
Previous_DropsAnswer ==
    /\ screen = "quiz"
    /\ idx' = PrevIdx(idx)
    /\ answers' = [g \in DOMAIN answers \ {Gid} |-> answers[g]]
    /\ msg' = NoMsg
    /\ last_op' = Op("prev", 0)
    /\ UNCHANGED <<df, screen, q_indices, correct_map, score, finished,
                   mode, submitted, scored, flags, opt_order, shuffle_options,
                   review, ever_correct>>

\* the Previous button
Previous ==
    /\ screen = "quiz"
    /\ idx' = PrevIdx(idx)
    /\ msg' = NoMsg
    /\ last_op' = Op("prev", 0)
    /\ UNCHANGED <<df, screen, q_indices, answers, correct_map, score, finished,
                   mode, submitted, scored, flags, opt_order, shuffle_options,
                   review, ever_correct>>

\* the Next button, when it is not disabled
Next_ ==
    /\ screen = "quiz"
    /\ ~DisableNext
    /\ go_next(answers)
    /\ msg' = NoMsg
    /\ last_op' = Op("next", 0)
    /\ UNCHANGED <<df, q_indices, answers, correct_map, mode, submitted, scored,
                   flags, opt_order, shuffle_options, ever_correct>>

\* a rerun of the results screen (e.g. after the download button)
Rerender ==
    /\ screen = "results"
    /\ render_results(answers)
    /\ msg' = NoMsg
    /\ last_op' = Op("render", 0)
    /\ UNCHANGED <<df, screen, q_indices, idx, answers, correct_map, finished,
                   mode, submitted, scored, flags, opt_order, shuffle_options,
                   ever_correct>>

\* render_results: the Home button
ResultsHome ==
    /\ screen = "results"
    /\ go_home
    /\ msg' = NoMsg
    /\ ever_correct' = {}
    /\ last_op' = Op("home", 1)
    /\ UNCHANGED df

\* a restart that draws the option orders again, as a fresh Start would
Restart_Reshuffle ==
    /\ screen = "results"
    /\ idx' = 0
    /\ answers' = EmptyDict
    /\ score' = 0
    /\ finished' = FALSE
    /\ submitted' = {}
    /\ scored' = {}
    /\ screen' = "quiz"
    /\ msg' = NoMsg
    /\ review' = <<>>
    /\ ever_correct' = {}
    /\ last_op' = Op("restart", 0)
    /\ opt_order' \in OptOrders(q_indices, TRUE)
    /\ UNCHANGED <<df, q_indices, correct_map, mode, flags, shuffle_options>>

\* a restart that forgets to empty the answers
Restart_KeepsAnswers ==
    /\ screen = "results"
    /\ idx' = 0
    /\ score' = 0
    /\ finished' = FALSE
    /\ submitted' = {}
    /\ scored' = {}
    /\ screen' = "quiz"
    /\ msg' = NoMsg
    /\ review' = <<>>
    /\ ever_correct' = {}
    /\ last_op' = Op("restart", 0)
    /\ UNCHANGED <<df, q_indices, answers, correct_map, mode, flags, opt_order,
                   shuffle_options>>

\* a restart that empties the flags with the rest of the progress
Restart_ClearsFlags ==
    /\ screen = "results"
    /\ idx' = 0
    /\ answers' = EmptyDict
    /\ score' = 0
    /\ finished' = FALSE
    /\ submitted' = {}
    /\ scored' = {}
    /\ flags' = {}
    /\ screen' = "quiz"
    /\ msg' = NoMsg
    /\ review' = <<>>
    /\ ever_correct' = {}
    /\ last_op' = Op("restart", 0)
    /\ UNCHANGED <<df, q_indices, correct_map, mode, opt_order, shuffle_options>>

\* a Restart that leaves the score of the finished run
Restart_KeepsScore ==
    /\ screen = "results"
    /\ idx' = 0
    /\ answers' = EmptyDict
    /\ finished' = FALSE
    /\ submitted' = {}
    /\ scored' = {}
    /\ screen' = "quiz"
    /\ msg' = NoMsg
    /\ review' = <<>>
    /\ ever_correct' = {}
    /\ last_op' = Op("restart", 0)
    /\ UNCHANGED <<df, q_indices, correct_map, mode, flags, opt_order,
                   shuffle_options, score>>

\* render_results: Restart same settings
Restart ==
    /\ screen = "results"
    /\ idx' = 0
    /\ answers' = EmptyDict
    /\ score' = 0
    /\ finished' = FALSE
    /\ submitted' = {}
    /\ scored' = {}
    /\ screen' = "quiz"
    /\ msg' = NoMsg
    /\ review' = <<>>
    /\ ever_correct' = {}
    /\ last_op' = Op("restart", 0)
    /\ UNCHANGED <<df, q_indices, correct_map, mode, flags, opt_order,
                   shuffle_options>>

\* the router's first run: no session, the home screen; df is loaded
Init ==
    /\ df \in {load_questions(raw) : raw \in RawTables}
    /\ screen = "home"
    /\ q_indices = <<>>
    /\ idx = 0
    /\ answers = EmptyDict
    /\ correct_map = EmptyDict
    /\ score = 0
    /\ finished = FALSE
    /\ mode = ""
    /\ submitted = {}
    /\ scored = {}
    /\ flags = {}
    /\ opt_order = EmptyDict
    /\ shuffle_options = FALSE
    /\ msg = NoMsg
    /\ review = <<>>
    /\ last_op = Op("init", 0)
    /\ ever_correct = {}

Next ==
    \/ Start
    \/ QuizHome
    \/ Jump
    \/ ToggleFlag
    \/ SubmitNoSelection
    \/ SubmitPractice
    \/ SubmitExam
    \/ Previous
    \/ Next_
    \/ Rerender
    \/ ResultsHome
    \/ Restart

Spec == Init /\ [][Next]_vars

----------------------------------------------------------------------------
(* quiz_app_v2.py: the earlier single-page variant.  It keeps q_indices,   *)
(* idx, answers, correct_map, score and finished in the session; mode is   *)
(* the live value of the sidebar radio; screen stands for the branch       *)
(* "if not st.session_state.finished" the page takes.  It has no check     *)
(* state, no scored set, no flags and no option order.                     *)

\* load_questions of quiz_app_v2.py: the expected columns, stripped; no row
\* is dropped and Correct is not coerced
v2_load_questions(raw) == [i \in 1..Len(raw) |-> raw[i]]

\* random.seed(42); random.shuffle(list(range(n)))
Shuffle42(n) ==
    CASE n = 1 -> <<0>>
      [] n = 2 -> <<1, 0>>
      [] n = 3 -> <<1, 0, 2>>
      [] n = 4 -> <<2, 1, 3, 0>>
      [] OTHER -> Identity(n)

\* init_state, with the values of the sidebar widgets
v2_init_state(shuffle, num_questions) ==
    LET all == IF shuffle THEN Shuffle42(Len(df)) ELSE Identity(Len(df))
        q   == SliceTo(all, num_questions)
    IN  /\ q_indices' = q
        /\ idx' = 0
        /\ answers' = EmptyDict
        /\ correct_map' = CorrectMapOf(q)
        /\ score' = 0
        /\ finished' = FALSE
        /\ screen' = "quiz"
        /\ review' = <<>>
        /\ ever_correct' = {}

\* the values the slider "Number of questions" offers
v2_SliderValues == 1..Len(df)

\* clamp_idx
v2_clamp_idx(i, n) == Max(0, Min(i, n - 1))

\* render_question: the keys of the options with a text, in source order
v2_render_question(gid) == AvailableLetters(Row(gid))

\* the results branch of the page: the score and the review table
v2_results(m, ans, running) ==
    /\ score' = CompiledScore(m, q_indices, ans, correct_map, running)
    /\ review' = ReviewRows(q_indices, ans, correct_map)

\* go_next and the rerun after it
v2_go_next(ans, running) ==
    /\ idx' = idx + 1
    /\ IF idx + 1 >= Len(q_indices)
       THEN /\ finished' = TRUE
            /\ screen' = "results"
            /\ v2_results(mode, ans, running)
       ELSE /\ score' = running
            /\ UNCHANGED <<finished, screen, review>>

\* the score after the Practice feedback: score += 1 on every correct submit
v2_ScoreAfter(m, correct_letter, chosen_letter) ==
    IF IsPractice(m) /\ IsCorrect(correct_letter, chosen_letter)
    THEN score + 1 ELSE score

\* the message of the submit handler
v2_Feedback(m, correct_letter, chosen_letter) ==
    IF IsPractice(m) THEN Feedback(correct_letter, chosen_letter) ELSE NoMsg

v2_Unused == <<submitted, scored, flags, opt_order, shuffle_options>>

v2_NoChoice ==
    IF Gid \in DOMAIN answers
    THEN answers[Gid] \notin Range(v2_render_question(Gid))
    ELSE TRUE

\* the form is submitted with nothing selected: st.warning, no advance
v2_SubmitNoSelection ==
    /\ ~finished
    /\ v2_NoChoice
    /\ msg' = [kind |-> "warning", letter |-> ""]
    /\ last_op' = Op("submit", 0)
    /\ UNCHANGED <<df, screen, q_indices, idx, answers, correct_map, score,
                   finished, mode, review, ever_correct>>
    /\ UNCHANGED v2_Unused

\* Submit & Next / Save & Next with a selected option
v2_Submit ==
    /\ ~finished
    /\ \E c \in 1..Len(v2_render_question(Gid)) :
         LET chosen_letter  == v2_render_question(Gid)[c]
             correct_letter == Upper(Get(correct_map, Gid, ""))
             ans            == Put(answers, Gid, chosen_letter)
         IN  /\ answers' = ans
             /\ v2_ScoreAfter(mode, correct_letter, chosen_letter) <= MaxScore
             /\ msg' = v2_Feedback(mode, correct_letter, chosen_letter)
             /\ v2_go_next(ans, v2_ScoreAfter(mode, correct_letter, chosen_letter))
             /\ ever_correct' =
                    IF IsPractice(mode) /\ IsCorrect(correct_letter, chosen_letter)
                    THEN ever_correct \cup {Gid} ELSE ever_correct
             /\ last_op' = Op("submit", c)
    /\ UNCHANGED <<df, q_indices, correct_map, mode>>
    /\ UNCHANGED v2_Unused

\* the Previous button of the form: go_prev
v2_Previous ==
    /\ ~finished
    /\ idx' = v2_clamp_idx(idx - 1, Len(q_indices))
    /\ msg' = NoMsg
    /\ last_op' = Op("prev", 0)
    /\ UNCHANGED <<df, screen, q_indices, answers, correct_map, score, finished,
                   mode, review, ever_correct>>
    /\ UNCHANGED v2_Unused

\* the sidebar radio is switched; the page reruns with the new mode
v2_SwitchMode ==
    /\ mode' \in Modes \ {mode}
    /\ IF finished
       THEN v2_results(mode', answers, score)
       ELSE UNCHANGED <<score, review>>
    /\ msg' = NoMsg
    /\ last_op' = Op("mode", 0)
    /\ UNCHANGED <<df, screen, q_indices, idx, answers, correct_map, finished,
                   ever_correct>>
    /\ UNCHANGED v2_Unused

\* a rerun of the finished page
v2_Rerender ==
    /\ finished
    /\ v2_results(mode, answers, score)
    /\ msg' = NoMsg
    /\ last_op' = Op("render", 0)
    /\ UNCHANGED <<df, screen, q_indices, idx, answers, correct_map, finished,
                   mode, ever_correct>>
    /\ UNCHANGED v2_Unused

\* "Reset quiz" in the sidebar: the session is cleared and built again
v2_Reset ==
    /\ \E sh \in BOOLEAN, num \in v2_SliderValues :
         /\ v2_init_state(sh, num)
         /\ last_op' = Op("start", num)
    /\ msg' = NoMsg
    /\ UNCHANGED <<df, mode>>
    /\ UNCHANGED v2_Unused

\* "Restart" on the results: the session is cleared and built again
v2_Restart ==
    /\ finished
    /\ \E sh \in BOOLEAN, num \in v2_SliderValues :
         /\ v2_init_state(sh, num)
         /\ last_op' = Op("restart", num)
    /\ msg' = NoMsg
    /\ UNCHANGED <<df, mode>>
    /\ UNCHANGED v2_Unused

\* the first run of the page: the table is loaded, init_state runs
v2_Init ==
    /\ df \in {v2_load_questions(raw) : raw \in RawTables}
    /\ mode \in Modes
    /\ \E sh \in BOOLEAN, num \in v2_SliderValues :
         LET all == IF sh THEN Shuffle42(Len(df)) ELSE Identity(Len(df))
         IN  /\ q_indices = SliceTo(all, num)
             /\ last_op = Op("start", num)
    /\ correct_map = CorrectMapOf(q_indices)
    /\ idx = 0
    /\ answers = EmptyDict
    /\ score = 0
    /\ finished = FALSE
    /\ screen = "quiz"
    /\ submitted = {}
    /\ scored = {}
    /\ flags = {}
    /\ opt_order = EmptyDict
    /\ shuffle_options = FALSE
    /\ msg = NoMsg
    /\ review = <<>>
    /\ ever_correct = {}

v2_Next ==
    \/ v2_SubmitNoSelection
    \/ v2_Submit
    \/ v2_Previous
    \/ v2_SwitchMode
    \/ v2_Rerender
    \/ v2_Reset
    \/ v2_Restart

SpecV2 == v2_Init /\ [][v2_Next]_vars

----------------------------------------------------------------------------
(* Vocabulary of the properties. *)

\* the session is running or showing its results
Active == screen = "quiz"

Finished == screen = "results"

\* the answer key of a question, as the table holds it
Key(gid) == Row(gid).Correct

Keyed(gid) == Key(gid) # ""

Answered(gid) == gid \in DOMAIN answers

Checked(gid) == gid \in submitted

Clamp(x, lo, hi) == IF x < lo THEN lo ELSE IF x > hi THEN hi ELSE x

\* the last script run was a submit that had a selected letter
SubmittedLetter == last_op.name = "submit" /\ msg.kind # "warning"

\* the fields of the session other than the position
Progress == <<answers, submitted, scored, score, flags>>

Session == <<q_indices, opt_order, correct_map, mode, shuffle_options>>

----------------------------------------------------------------------------
(* C1 -- Idempotent scoring.  In Practice mode a submit with a letter adds *)
(* exactly 1 to the score when the letter is the key of the question and   *)
(* no earlier submit of this session hit that key, and adds 0 otherwise,   *)
(* whatever navigation and wrong submits lie in between.                   *)

Hit(gid) == Keyed(gid) /\ answers'[gid] = Upper(Key(gid))

C1_Step ==
    (IsPractice(mode) /\ Active /\ last_op'.name = "submit" /\ msg'.kind # "warning")
        => score' = score + (IF Hit(Gid) /\ Gid \notin ever_correct THEN 1 ELSE 0)

\* C1: a Practice submit adds 1 at the first hit of the key and 0 afterwards
C1_IdempotentScoring == [][C1_Step]_vars

----------------------------------------------------------------------------
(* C2 -- Navigation gating.  In Practice, while the current question is    *)
(* not checked, the Next button is refused (disabled, with the "check      *)
(* first" help) and no next step happens; right after a check of the       *)
(* current question a next step is possible, and every next step advances  *)
(* the position by exactly 1 and changes no other field of the progress.   *)

MustCheckFirst == "Check answer first to proceed."

C2_Refused ==
    (Active /\ IsPractice(mode) /\ ~Checked(Gid))
        => (~ENABLED Next_ /\ HelpTxt = MustCheckFirst)

C2_AfterSubmit ==
    (Active /\ IsPractice(mode) /\ SubmittedLetter) => ENABLED Next_

C2_NextStep ==
    (IsPractice(mode) /\ last_op'.name = "next") =>
        /\ Active /\ Checked(Gid)
        /\ idx' = idx + 1
        /\ UNCHANGED Progress

\* C2: Next is refused while unchecked, possible after a check, and adds 1
C2_NavigationGating ==
    /\ [](C2_Refused /\ C2_AfterSubmit)
    /\ [][C2_NextStep]_vars

\* a next step taken right after a Practice check
C2_Witness ==
    /\ IsPractice(mode)
    /\ last_op.name = "next"
    /\ idx = 1
    /\ Active
    /\ ~Checked(Gid)
    /\ Checked(q_indices[1])

----------------------------------------------------------------------------
(* C3 -- Option-order stability.  From Start until Home, no step changes  *)
(* the option order stored for any selected question, nor the order the    *)
(* question is rendered with: next, previous, jump, submit, flag and       *)
(* restart all leave it as Start built it.                                 *)

RenderedOrders == [g \in Range(q_indices) |-> render_options(g)]

C3_Step ==
    (screen # "home" /\ screen' # "home") =>
        /\ opt_order' = opt_order
        /\ RenderedOrders' = RenderedOrders
        /\ \A g \in Range(q_indices) : g \in DOMAIN opt_order

\* C3: no step between Start and Home changes the option orders
C3_OptionOrderStability == [][C3_Step]_vars

\* a question with a shuffled option order is revisited after it was answered
C3_Witness ==
    /\ Active
    /\ last_op.name \in {"prev", "jump"}
    /\ Answered(Gid)
    /\ opt_order[Gid] # AvailableLetters(Row(Gid))

----------------------------------------------------------------------------
(* C4 -- Selection size.  A Start with requested count num on a non-empty  *)
(* table selects exactly clamp(num, 1, total) questions, for counts below  *)
(* 1 and above the table size too, and the number of selected questions    *)
(* stays the same in every later state of the session.                     *)

C4_AtStart ==
    (last_op'.name = "start" /\ Len(df) > 0) =>
        Len(q_indices') = Clamp(last_op'.arg, 1, Len(df))

C4_Later ==
    (screen # "home" /\ screen' # "home") => Len(q_indices') = Len(q_indices)

\* C4: Start selects clamp(num, 1, total) questions, and the number stays
C4_SelectionSize == [][C4_AtStart /\ C4_Later]_vars

\* a session that asked for more questions than the table has
C4_Witness ==
    /\ last_op.name = "start"
    /\ last_op.arg > Len(df)
    /\ Len(q_indices) = Len(df)
    /\ Len(df) > 1

----------------------------------------------------------------------------
(* C5 -- Exam compile is pure.  On the results screen of an Exam session a *)
(* second run of render_results gives the same score and the same review   *)
(* rows as the first, and changes no field of the session.                 *)

C5_Step ==
    (IsExam(mode) /\ Finished /\ last_op'.name = "render") =>
        /\ score' = score
        /\ review' = review
        /\ UNCHANGED <<answers, submitted, scored, flags, idx, screen, finished>>
        /\ UNCHANGED Session

\* C5: a second render of Exam results changes neither score, rows nor state
C5_ExamCompilePure == [][C5_Step]_vars

\* a re-rendered Exam result with a non-zero score
C5_Witness ==
    /\ IsExam(mode)
    /\ Finished
    /\ last_op.name = "render"
    /\ score > 0
    /\ Len(review) > 1

----------------------------------------------------------------------------
(* C6 -- Exam score.  On the results screen of an Exam session the score   *)
(* is the number of selected questions that have a key and whose recorded  *)
(* answer equals it; an unanswered question adds nothing, and a keyed      *)
(* unanswered question has status Unanswered.                              *)

CorrectlyAnswered ==
    {g \in Range(q_indices) : Keyed(g) /\ Answered(g) /\ answers[g] = Key(g)}

\* C6: the Exam score counts the keyed questions answered with their key
C6_ExamScore ==
    (IsExam(mode) /\ Finished) =>
        /\ score = Cardinality(CorrectlyAnswered)
        /\ \A i \in 1..Len(q_indices) :
             (Keyed(q_indices[i]) /\ ~Answered(q_indices[i]))
                 => review[i].Status = "Unanswered"

\* an Exam result with a correct answer and a keyed question left unanswered
C6_Witness ==
    /\ IsExam(mode)
    /\ Finished
    /\ score = 1
    /\ \E g \in Range(q_indices) : Keyed(g) /\ ~Answered(g)

----------------------------------------------------------------------------
(* C7 -- Review rows.  The results hold one row per selected question, in  *)
(* session order; a row is Correct iff the key is set and chosen equals    *)
(* it, Incorrect iff key and chosen are set and differ, No key iff the key *)
(* is unset, Unanswered iff the key is set and nothing was chosen; for     *)
(* every (key, chosen) pair exactly one of the four applies.               *)

Chosen(g) == IF Answered(g) THEN answers[g] ELSE ""

StatusSpec(key, chosen) ==
    {st \in {"Correct", "Incorrect", "No key", "Unanswered"} :
        \/ st = "Correct"    /\ key # "" /\ chosen = key
        \/ st = "Incorrect"  /\ key # "" /\ chosen # "" /\ chosen # key
        \/ st = "No key"     /\ key = ""
        \/ st = "Unanswered" /\ key # "" /\ chosen = ""}

CellValues == Range(LETTERS) \cup {""}

\* C7: one row per selected id, in order, with the status the four rules give
C7_ReviewRows ==
    /\ \A key \in CellValues, chosen \in CellValues :
         StatusSpec(key, chosen) = {Status(chosen, key)}
    /\ Finished =>
         /\ Len(review) = Len(q_indices)
         /\ \A i \in 1..Len(q_indices) :
              /\ review[i].gid = q_indices[i]
              /\ review[i].Chosen = Chosen(q_indices[i])
              /\ review[i].Correct = Key(q_indices[i])
              /\ StatusSpec(Key(q_indices[i]), Chosen(q_indices[i]))
                     = {review[i].Status}

\* results with an unanswered question without key next to an incorrect one
C7_Witness ==
    /\ Finished
    /\ \E i \in 1..Len(review) : review[i].Status = "No key" /\ review[i].Chosen = ""
    /\ \E i \in 1..Len(review) : review[i].Status = "Incorrect"

----------------------------------------------------------------------------
(* C8 -- No answer key.  A Practice check of a question without key shows  *)
(* the "no key" information, records the answer and marks the question     *)
(* checked, and leaves score and scoredIds as they were; the results give  *)
(* such a question status No key whatever was chosen.                      *)

C8_Step ==
    (Active /\ IsPractice(mode) /\ ~Keyed(Gid)
            /\ last_op'.name = "submit" /\ msg'.kind # "warning") =>
        /\ msg'.kind = "info"
        /\ score' = score
        /\ scored' = scored
        /\ Gid \in DOMAIN answers'
        /\ answers'[Gid] \in Range(render_options(Gid))
        /\ Gid \in submitted'

C8_Results ==
    Finished =>
        \A i \in 1..Len(q_indices) :
            ~Keyed(q_indices[i]) => review[i].Status = "No key"

\* C8: a question without key never scores and is reviewed as No key
C8_NoAnswerKey == [](C8_Results) /\ [][C8_Step]_vars

\* the results of a Practice session in which a question without key was
\* answered and checked
C8_Witness ==
    /\ IsPractice(mode)
    /\ Finished
    /\ \E i \in 1..Len(review) :
         /\ ~Keyed(q_indices[i])
         /\ Checked(q_indices[i])
         /\ review[i].Chosen # ""
         /\ review[i].Status = "No key"

----------------------------------------------------------------------------
(* C10 -- First correct counts.  In a Practice session, from Start or      *)
(* Restart to its end, scoredIds only grows and the score never decreases; *)
(* a check that is correct after an earlier wrong one gains the point, and *)
(* a wrong check of a question already scored takes nothing back.          *)

C10_Monotone ==
    (IsPractice(mode) /\ Active /\ screen' # "home") =>
        /\ scored \subseteq scored'
        /\ score' >= score

C10_LateCorrect ==
    (IsPractice(mode) /\ Active /\ last_op'.name = "submit"
        /\ msg'.kind = "success" /\ Checked(Gid) /\ Gid \notin ever_correct) =>
        /\ score' = score + 1
        /\ Gid \in scored' /\ Gid \notin scored

C10_LateWrong ==
    (IsPractice(mode) /\ Active /\ last_op'.name = "submit"
        /\ msg'.kind = "error" /\ Gid \in ever_correct) =>
        /\ score' = score
        /\ Gid \in scored' /\ Gid \in scored

\* C10: in Practice scoredIds only grows and the score never decreases
C10_FirstCorrectCounts == [][C10_Monotone /\ C10_LateCorrect /\ C10_LateWrong]_vars

\* a question that was checked right and then wrong, and still holds its
\* point
C10_Witness ==
    /\ IsPractice(mode)
    /\ Active
    /\ last_op.name = "submit"
    /\ msg.kind = "error"
    /\ Gid \in scored
    /\ answers[Gid] # Key(Gid)
    /\ score = 1

----------------------------------------------------------------------------
(* The Practice round trip: a Practice session without shuffling in which  *)
(* every question, in order, is checked once and then left with Next.      *)

RoundTripStart ==
    \E num \in NumInputs : StartWith(PRACTICE, num, FALSE, FALSE)

RoundTripCheck ==
    /\ Active
    /\ ~Checked(Gid)
    /\ SubmitPractice

RoundTripNext == Next_

RoundTripStep == RoundTripStart \/ RoundTripCheck \/ RoundTripNext

SpecRoundTrip == Init /\ [][RoundTripStep]_vars

----------------------------------------------------------------------------
(* C9 -- Practice round trip.  In a round trip the session is Finished     *)
(* exactly after the Next of the last question; every check reports        *)
(* Correct exactly when the letter is the key, and Incorrect with the key  *)
(* when the question has another key; the final score is the number of     *)
(* Correct checks, and the review rows say Correct / Incorrect             *)
(* accordingly.  With keys A and B and answers A and C: 1 of 2, Q0         *)
(* Correct, Q1 Incorrect.                                                  *)

\* the questions checked so far are the first ones, in order
C9_InOrder ==
    (screen # "home") =>
        /\ q_indices = Identity(Len(q_indices))
        /\ \A i \in 1..Len(q_indices) :
             /\ Checked(q_indices[i]) <=> Answered(q_indices[i])
             /\ (i < idx + 1) => Checked(q_indices[i])
             /\ (i > idx + 1) => ~Checked(q_indices[i])

C9_CheckResult ==
    (Active /\ SubmittedLetter) =>
        /\ (msg.kind = "success") <=> (answers[Gid] = Key(Gid))
        /\ (msg.kind = "success") => msg.letter = answers[Gid]
        /\ (Keyed(Gid) /\ answers[Gid] # Key(Gid))
               => msg = [kind |-> "error", letter |-> Key(Gid)]

C9_Finish ==
    /\ Active => (idx < Len(q_indices) /\ ENABLED (RoundTripCheck \/ RoundTripNext))
    /\ Finished =>
         /\ last_op.name = "next"
         /\ idx = Len(q_indices)
         /\ score = Cardinality(CorrectlyAnswered)
         /\ \A i \in 1..Len(q_indices) :
              LET g == q_indices[i]
              IN  /\ (review[i].Status = "Correct") <=> (answers[g] = Key(g))
                  /\ (review[i].Status = "Incorrect")
                         <=> (Keyed(g) /\ answers[g] # Key(g))

\* C9: the Practice round trip ends Finished with score = correct checks
C9_PracticeRoundTrip == C9_InOrder /\ C9_CheckResult /\ C9_Finish

\* keys A and B, answers A and C: score 1 of 2, Q0 Correct, Q1 Incorrect
C9_Witness ==
    /\ Finished
    /\ Len(q_indices) = 2
    /\ Key(0) = "A" /\ Key(1) = "B"
    /\ answers[0] = "A" /\ answers[1] = "C"
    /\ score = 1
    /\ review[1].Status = "Correct"
    /\ review[2].Status = "Incorrect"

----------------------------------------------------------------------------
(* C11 -- Entering Finished.  A session becomes Finished exactly by a next *)
(* from the last position: a Next, or an Exam submit with a letter, taken  *)
(* at position len - 1 always ends in Finished at position len, and no     *)
(* other step (previous, jump, flag, Practice submit, a submit without a   *)
(* selection, a next from an earlier position) ever does.                  *)

\* the step is a go_next: the Next button, or an Exam submit with a letter
IsNextStep ==
    \/ last_op'.name = "next"
    \/ last_op'.name = "submit" /\ IsExam(mode) /\ msg'.kind # "warning"

AtLast == idx = Len(q_indices) - 1

C11_Only ==
    (~Finished /\ Finished') =>
        /\ Active
        /\ IsNextStep
        /\ AtLast
        /\ idx' = Len(q_indices)
        /\ finished'

C11_Always == (Active /\ IsNextStep /\ AtLast) => Finished'

C11_Never == (Active /\ (~IsNextStep \/ ~AtLast)) => ~Finished'

\* C11: Finished is entered by a next from the last position, and only so
C11_FinishedEntry == [][C11_Only /\ C11_Always /\ C11_Never]_vars

\* an Exam session of two questions ended by the submit on the second one
C11_Witness ==
    /\ Finished
    /\ IsExam(mode)
    /\ last_op.name = "submit"
    /\ Len(q_indices) = 2
    /\ idx = 2
    /\ finished

----------------------------------------------------------------------------
(* C12 -- Finished is terminal.  On the results screen no next, previous,  *)
(* jump, submit or flag can run; a step taken there leaves the position    *)
(* and the progress as they are unless it is Restart or Home, and the      *)
(* session is Active again only after a Restart, which starts it afresh.   *)

C12_NoOperation ==
    Finished =>
        /\ finished
        /\ idx = Len(q_indices)
        /\ ~ENABLED Next_
        /\ ~ENABLED Previous
        /\ ~ENABLED Jump
        /\ ~ENABLED SubmitPractice
        /\ ~ENABLED SubmitExam
        /\ ~ENABLED SubmitNoSelection
        /\ ~ENABLED ToggleFlag

C12_Stays ==
    (Finished /\ Finished') =>
        /\ last_op'.name = "render"
        /\ UNCHANGED <<idx, finished>>
        /\ UNCHANGED Progress
        /\ UNCHANGED Session

C12_Leaves ==
    (Finished /\ ~Finished') =>
        \/ last_op'.name = "home" /\ screen' = "home"
        \/ /\ last_op'.name = "restart"
           /\ Active'
           /\ idx' = 0
           /\ answers' = EmptyDict
           /\ submitted' = {}

\* C12: nothing but Restart and Home leaves Finished, and no operation runs
C12_FinishedTerminal == [](C12_NoOperation) /\ [][C12_Stays /\ C12_Leaves]_vars

\* the results of a two-question Practice session, rendered once more
C12_Witness ==
    /\ Finished
    /\ last_op.name = "render"
    /\ Len(q_indices) = 2
    /\ idx = 2
    /\ submitted # {}
    /\ flags # {}

----------------------------------------------------------------------------
(* C13 -- Previous.  The Previous button is offered in every Active state, *)
(* in Practice whether the current question is checked or not; it sets the *)
(* position to max(0, position - 1), so it changes nothing at position 0,  *)
(* it changes no other field, and the session stays Active.                *)

C13_Allowed == Active => ENABLED Previous

\* the same for the Previous button of quiz_app_v2.py
C13_AllowedV2 == Active => ENABLED v2_Previous

C13_Step ==
    (last_op'.name = "prev") =>
        /\ Active
        /\ Active'
        /\ idx' = (IF idx = 0 THEN 0 ELSE idx - 1)
        /\ idx' \in 0..(Len(q_indices) - 1)
        /\ UNCHANGED Progress
        /\ UNCHANGED Session
        /\ UNCHANGED finished

\* C13: previous is always allowed and sets position to max(0, position - 1)
C13_Previous == [](C13_Allowed) /\ [][C13_Step]_vars

\* C13 for quiz_app_v2.py, checked under SpecV2
C13_PreviousV2 == [](C13_AllowedV2) /\ [][C13_Step]_vars

\* Previous pressed on the only question of a Practice session, unchecked
C13_Witness ==
    /\ Active
    /\ IsPractice(mode)
    /\ last_op.name = "prev"
    /\ Len(q_indices) = 1
    /\ idx = 0
    /\ ~Checked(Gid)

----------------------------------------------------------------------------
(* C14 -- Jump.  In every Active state, in both modes and whatever is      *)
(* checked, a jump to any i is accepted; it sets the position to i clamped *)
(* into 0 .. len - 1 and changes no other field.  In Practice a jump can   *)
(* leave an unchecked question behind.                                     *)

C14_Allowed == Active => \A i \in JumpInputs : ENABLED JumpTo(i)

C14_Step ==
    (last_op'.name = "jump") =>
        /\ Active
        /\ Active'
        /\ idx' = Clamp(last_op'.arg, 0, Len(q_indices) - 1)
        /\ UNCHANGED Progress
        /\ UNCHANGED Session
        /\ UNCHANGED finished

\* C14: a jump to i is always allowed and sets position to i clamped
C14_JumpTo == [](C14_Allowed) /\ [][C14_Step]_vars

\* a Practice session in which nothing is checked, on its second question
\* after a jump beyond the last one
C14_Witness ==
    /\ Active
    /\ IsPractice(mode)
    /\ last_op = Op("jump", 2)
    /\ Len(q_indices) = 2
    /\ idx = 1
    /\ submitted = {}

----------------------------------------------------------------------------
(* C15 -- Submit records the answer.  In both modes a submit with the      *)
(* option at position c of the rendered order selected leaves answers[id]  *)
(* equal to the letter at that position, whatever answers[id] held before, *)
(* and leaves the answers of all other ids as they were; such a submit is  *)
(* possible for every option in every Active state, answered or not.       *)

\* the letter the submit selected
SelectedLetter == render_options(Gid)[last_op'.arg]

C15_Step ==
    (Active /\ last_op'.name = "submit" /\ msg'.kind # "warning") =>
        /\ last_op'.arg \in 1..Len(render_options(Gid))
        /\ DOMAIN answers' = DOMAIN answers \cup {Gid}
        /\ answers'[Gid] = SelectedLetter
        /\ \A g \in DOMAIN answers : g # Gid => answers'[g] = answers[g]

C15_Possible ==
    Active =>
        \A c \in 1..Len(render_options(Gid)) :
            ENABLED (/\ SubmitPractice \/ SubmitExam
                     /\ last_op' = Op("submit", c)
                     /\ answers'[Gid] = render_options(Gid)[c])

\* C15: a submit with a letter sets answers[id] to it and no other answer
C15_SubmitOverwrites == [](C15_Possible) /\ [][C15_Step]_vars

\* two answered questions; the current one was answered with its key before
\* and now holds another letter
C15_Witness ==
    /\ Active
    /\ last_op.name = "submit"
    /\ msg.kind # "warning"
    /\ Cardinality(DOMAIN answers) = 2
    /\ Gid \in ever_correct
    /\ answers[Gid] # Key(Gid)

----------------------------------------------------------------------------
(* C16 -- Exam submit is save-and-next.  In Exam an Active submit with a   *)
(* letter has the effect of a next taken with that letter recorded: the    *)
(* position grows by 1; from the last question the session is Finished     *)
(* with the results compiled from the new answers, otherwise it stays      *)
(* Active with score and review as they were; nothing else changes.  Where *)
(* the letter is recorded already, the submit and the Next button lead to  *)
(* the same state.                                                         *)

\* what a next does to the fields other than answers
NextEffect ==
    /\ idx' = idx + 1
    /\ IF idx = Len(q_indices) - 1
       THEN /\ Finished' /\ finished'
            /\ IsExam(mode) => score' = Cardinality(CorrectlyAnswered')
            /\ Len(review') = Len(q_indices)
       ELSE /\ Active' /\ ~finished'
            /\ UNCHANGED <<score, review>>
    /\ UNCHANGED <<submitted, scored, flags>>
    /\ UNCHANGED Session

C16_Submit ==
    (Active /\ IsExam(mode) /\ last_op'.name = "submit" /\ msg'.kind # "warning") =>
        /\ NextEffect
        /\ answers' = [g \in DOMAIN answers \cup {Gid} |->
                          IF g = Gid THEN SelectedLetter ELSE answers[g]]

C16_Next ==
    (Active /\ IsExam(mode) /\ last_op'.name = "next") =>
        /\ NextEffect
        /\ answers' = answers

\* the position of the recorded answer in the rendered order
RecordedAt == CHOOSE c \in 1..Len(render_options(Gid)) :
                  render_options(Gid)[c] = answers[Gid]

\* the state a step leaves, the history apart
SameState(i, sc, f, s, r) ==
    /\ idx' = i /\ screen' = sc /\ finished' = f /\ score' = s /\ review' = r
    /\ msg' = NoMsg
    /\ UNCHANGED <<df, answers, submitted, scored, flags, ever_correct>>
    /\ UNCHANGED Session

C16_SameAsNext ==
    (Active /\ IsExam(mode) /\ Answered(Gid)) =>
        \E i \in 0..Len(q_indices), sc \in {"quiz", "results"}, f \in BOOLEAN,
           s \in 0..Len(q_indices),
           r \in {review, ReviewRows(q_indices, answers, correct_map)} :
            /\ ENABLED (Next_ /\ SameState(i, sc, f, s, r))
            /\ ENABLED (/\ SubmitExam
                        /\ last_op'.arg = RecordedAt
                        /\ SameState(i, sc, f, s, r))

\* C16: an Exam submit leaves the state of recording the letter, then next
C16_ExamSubmitIsSaveNext ==
    [](C16_SameAsNext) /\ [][C16_Submit /\ C16_Next]_vars

\* an Exam session on its second question after the key of the first one
\* was saved: no score yet
C16_Witness ==
    /\ Active
    /\ IsExam(mode)
    /\ last_op.name = "submit"
    /\ idx = 1
    /\ Keyed(q_indices[1])
    /\ answers[q_indices[1]] = Key(q_indices[1])
    /\ score = 0

----------------------------------------------------------------------------
(* C17 -- Exam keeps no running score.  In every reachable state of an     *)
(* Exam session no question is checked and none is scored, and while the   *)
(* session is Active the score is 0, whatever was answered; the score      *)
(* leaves 0 only in a step that ends on the results screen, where it is    *)
(* the compiled count.                                                     *)

C17_Active ==
    (IsExam(mode) /\ screen # "home") =>
        /\ submitted = {}
        /\ scored = {}
        /\ Active => score = 0

C17_Compile ==
    (IsExam(mode) /\ score' # score /\ score' # 0) =>
        /\ Finished'
        /\ IsNextStep
        /\ score = 0
        /\ score' = Cardinality(CorrectlyAnswered')

\* C17: an Active Exam session has nothing checked, nothing scored, score 0
C17_ExamNoRunningScore == [](C17_Active) /\ [][C17_Compile]_vars

\* an Active Exam session back on a question that holds its key: score 0
C17_Witness ==
    /\ Active
    /\ IsExam(mode)
    /\ last_op.name = "prev"
    /\ Answered(Gid)
    /\ Keyed(Gid)
    /\ answers[Gid] = Key(Gid)
    /\ score = 0
    /\ submitted = {}

----------------------------------------------------------------------------
(* C18 -- No selection.  A submit with no option selected is possible on   *)
(* every unanswered question, in both modes; it reports the missing        *)
(* selection and changes no field of the session: answers, checked,        *)
(* scoredIds, score, flags and position stay, and in Exam the session does *)
(* not advance.                                                            *)

NoSelection == [kind |-> "warning", letter |-> ""]

C18_Possible == (Active /\ ~Answered(Gid)) => ENABLED SubmitNoSelection

\* the same for the form of quiz_app_v2.py
C18_PossibleV2 == (Active /\ ~Answered(Gid)) => ENABLED v2_SubmitNoSelection

C18_Step ==
    (last_op' = Op("submit", 0)) =>
        /\ Active
        /\ msg' = NoSelection
        /\ UNCHANGED <<idx, screen, finished, review>>
        /\ UNCHANGED Progress
        /\ UNCHANGED Session

C18_OnlyThen ==
    (last_op'.name = "submit" /\ msg' = NoSelection) => last_op'.arg = 0

\* C18: a submit without a selection warns and changes nothing
C18_NoSelectionNoMutation == [](C18_Possible) /\ [][C18_Step /\ C18_OnlyThen]_vars

\* C18 for quiz_app_v2.py, checked under SpecV2
C18_NoSelectionNoMutationV2 ==
    [](C18_PossibleV2) /\ [][C18_Step /\ C18_OnlyThen]_vars

\* an Exam session on its second question, the first one answered: the
\* submit without a selection left it there
C18_Witness ==
    /\ Active
    /\ IsExam(mode)
    /\ last_op = Op("submit", 0)
    /\ msg = NoSelection
    /\ idx = 1
    /\ Answered(q_indices[1])
    /\ ~Answered(Gid)

----------------------------------------------------------------------------
(* The empty question bank.  load_questions returns an empty table for a   *)
(* file that holds the header alone, or rows without a question only.      *)
(* render_home then hands min_value = 1, max_value = total = 0 to          *)
(* st.number_input and calls init_quiz from the Start button; neither      *)
(* function tests the table for emptiness.  Here Start runs init_quiz on   *)
(* every table load_questions can return.  With no selected question       *)
(* render_quiz renders the Home button and an empty question map, then     *)
(* raises IndexError at q_indices[idx]: nothing below that line is shown.  *)

\* a row of the file without a question
BlankRow ==
    [Question |-> "", A |-> "t", B |-> "t", C |-> "", D |-> "", Correct |-> "A"]

\* question files without a usable row, next to those of RawTables
EmptyBankFiles == {<<>>, <<BlankRow>>, <<BlankRow, BlankRow>>}

\* gid = st.session_state.q_indices[st.session_state.idx] raises IndexError
RenderFails == screen = "quiz" /\ idx >= Len(q_indices)

\* a run of the quiz screen that ends in the IndexError
QuizCrash ==
    /\ RenderFails
    /\ msg' = [kind |-> "exception", letter |-> ""]
    /\ last_op' = Op("crash", 0)
    /\ UNCHANGED <<df, screen, q_indices, idx, answers, correct_map, score,
                   finished, mode, submitted, scored, flags, opt_order,
                   shuffle_options, review, ever_correct>>

InitEmptyBank ==
    /\ df \in {load_questions(raw) : raw \in RawTables \cup EmptyBankFiles}
    /\ screen = "home"
    /\ q_indices = <<>>
    /\ idx = 0
    /\ answers = EmptyDict
    /\ correct_map = EmptyDict
    /\ score = 0
    /\ finished = FALSE
    /\ mode = ""
    /\ submitted = {}
    /\ scored = {}
    /\ flags = {}
    /\ opt_order = EmptyDict
    /\ shuffle_options = FALSE
    /\ msg = NoMsg
    /\ review = <<>>
    /\ last_op = Op("init", 0)
    /\ ever_correct = {}

\* value=min(50, total) of the number widget
DefaultCount == 50

\* the values st.number_input(min_value=1, max_value=total) can hand over:
\* 1..total, and with an empty table nothing but its default value
NumberInputValues ==
    IF Len(df) = 0 THEN {Min(DefaultCount, Len(df))} ELSE 1..Len(df)

\* render_home: the Start button, with the value of the number widget
StartFromWidget ==
    \E m \in Modes, num \in NumberInputValues, sq \in BOOLEAN, so \in BOOLEAN :
        StartWith(m, num, sq, so)

\* the handlers of a quiz screen that rendered its question
QuizHandlers ==
    \/ Jump
    \/ ToggleFlag
    \/ SubmitNoSelection
    \/ SubmitPractice
    \/ SubmitExam
    \/ Previous
    \/ Next_

NextEmptyBank ==
    \/ StartFromWidget
    \/ QuizHome
    \/ ~RenderFails /\ QuizHandlers
    \/ QuizCrash
    \/ Rerender
    \/ ResultsHome
    \/ Restart

SpecEmptyBank == InitEmptyBank /\ [][NextEmptyBank]_vars

----------------------------------------------------------------------------
(* C19 -- Empty question bank.  With an empty table no session exists: the *)
(* screen is Home in every reachable state, a Start there reports the      *)
(* empty bank and creates nothing, and no Active state has an empty list   *)
(* of selected questions.                                                  *)

----------------------------------------------------------------------------
(* C20 -- Restart.  Restart is offered on the results screen; it sets the  *)
(* position to 0, empties answers, checked and scoredIds, sets the score   *)
(* to 0 and makes the session Active, and it leaves the selected           *)
(* questions, their option orders, the key map and the mode as they were.  *)

C20_Offered == Finished => ENABLED Restart

C20_Step ==
    (last_op'.name = "restart") =>
        /\ Finished
        /\ Active'
        /\ ~finished'
        /\ idx' = 0
        /\ answers' = EmptyDict
        /\ submitted' = {}
        /\ scored' = {}
        /\ score' = 0
        /\ UNCHANGED <<q_indices, opt_order, correct_map, mode>>

\* C20: Restart resets the progress and keeps selection, orders, keys, mode
C20_RestartFrame == [](C20_Offered) /\ [][C20_Step]_vars

\* a restarted session whose questions and options were both shuffled
C20_Witness ==
    /\ Active
    /\ last_op.name = "restart"
    /\ q_indices = <<1, 0>>
    /\ opt_order[1] # AvailableLetters(Row(1))
    /\ idx = 0
    /\ DOMAIN correct_map = {0, 1}

----------------------------------------------------------------------------
(* C21 -- Flags across Restart.  A Restart leaves the set of flagged ids   *)
(* as it was; after Home and after Start the set is empty; on the results  *)
(* screen no step but Home changes it.                                     *)

C21_Step ==
    /\ (last_op'.name = "restart") => flags' = flags
    /\ (last_op'.name \in {"home", "start"}) => flags' = {}
    /\ (Finished /\ last_op'.name # "home") => flags' = flags

\* C21: flags survive Restart and are emptied by Home and by Start
C21_FlagsAcrossRestart == [][C21_Step]_vars

\* a restarted session that still holds a flag
C21_Witness ==
    /\ Active
    /\ last_op.name = "restart"
    /\ flags # {}
    /\ answers = EmptyDict

----------------------------------------------------------------------------
(* C22 -- Home discards the session.  Home is offered in every Active and  *)
(* every Finished state; after it the screen is Home and no field of the   *)
(* session is left: the state is the one of the first run, so that the     *)
(* next Start builds every field afresh.                                   *)

\* no session: the fields as the first run of the script finds them
NoSession ==
    /\ q_indices = <<>>
    /\ idx = 0
    /\ answers = EmptyDict
    /\ correct_map = EmptyDict
    /\ opt_order = EmptyDict
    /\ score = 0
    /\ finished = FALSE
    /\ mode = ""
    /\ submitted = {}
    /\ scored = {}
    /\ flags = {}
    /\ shuffle_options = FALSE
    /\ review = <<>>

C22_Offered ==
    /\ Active => ENABLED QuizHome
    /\ Finished => ENABLED ResultsHome

C22_AtHome == (screen = "home") => NoSession

C22_Step ==
    /\ (last_op'.name = "home") =>
           /\ Active \/ Finished
           /\ screen' = "home"
           /\ NoSession'
           /\ df' = df
    /\ (last_op'.name = "start") =>
           /\ screen = "home" /\ NoSession
           /\ Active'
           /\ idx' = 0 /\ score' = 0 /\ ~finished'
           /\ answers' = EmptyDict
           /\ submitted' = {} /\ scored' = {} /\ flags' = {}
           /\ mode' \in Modes
           /\ DOMAIN correct_map' = Range(q_indices')
           /\ DOMAIN opt_order' = Range(q_indices')

\* C22: Home leaves no field of the session, and Start builds all of them
C22_HomeDiscards == [](C22_Offered /\ C22_AtHome) /\ [][C22_Step]_vars

\* Home pressed on the results of a session
C22_Witness ==
    /\ screen = "home"
    /\ last_op = Op("home", 1)
    /\ NoSession

----------------------------------------------------------------------------
(* C23 -- Position range.  In every Active state the position is one of    *)
(* 0 .. len - 1 and the question at that position is a row of the table;   *)
(* the position equals len exactly in the Finished states.                 *)

----------------------------------------------------------------------------
(* C24 -- The configuration is fixed.  From the start of a session to its  *)
(* end (Home, or a session built anew) no step changes the mode, the       *)
(* shuffle setting or the selected questions, so submit, next and the      *)
(* results all see the mode the session was started with, and the score   *)
(* the results show is never replaced by the one of the other mode.        *)

\* the step builds a session or discards one
BuildsSession == last_op'.name \in {"start", "restart", "home"}

C24_Step ==
    (screen # "home" /\ ~BuildsSession) =>
        /\ mode' = mode
        /\ shuffle_options' = shuffle_options
        /\ q_indices' = q_indices
        /\ Finished => score' = score

\* C24: no step of a session changes its mode, shuffle setting or selection
C24_ConfigImmutable == [][C24_Step]_vars

----------------------------------------------------------------------------
(* C25 -- The selection is fixed.  While a session exists its selected ids *)
(* are a sequence without repetition of rows of the table, and the option  *)
(* orders are stored for exactly these ids; a Start without question       *)
(* shuffle selects 0 .. n-1 in this order; no step but Home and Start      *)
(* changes the selection, Restart included.                                *)

NoRepeat(s) == \A i, j \in 1..Len(s) : s[i] = s[j] => i = j

C25_Selection ==
    (screen # "home") =>
        /\ NoRepeat(q_indices)
        /\ Range(q_indices) \subseteq 0..(Len(df) - 1)
        /\ DOMAIN opt_order = Range(q_indices)

C25_Unshuffled ==
    (screen = "home") =>
        \A m \in Modes, num \in NumInputs, so \in BOOLEAN :
            /\ ENABLED StartWith(m, num, FALSE, so)
            /\ ~ENABLED (/\ StartWith(m, num, FALSE, so)
                         /\ q_indices' # Identity(Clamp(num, 1, Len(df))))

C25_Step ==
    (screen # "home" /\ last_op'.name \notin {"start", "home"}) =>
        /\ q_indices' = q_indices
        /\ DOMAIN opt_order' = DOMAIN opt_order

\* C25: the selection has no repetition, is in the table, and never changes
C25_SelectionFixed == [](C25_Selection /\ C25_Unshuffled) /\ [][C25_Step]_vars

\* the results of a session with a shuffled selection, rendered again
C25_Witness ==
    /\ Finished
    /\ last_op.name = "render"
    /\ q_indices = <<1, 0>>
    /\ DOMAIN opt_order = {0, 1}

----------------------------------------------------------------------------
(* quiz_app.py: the variant without option shuffle.  Its load_questions    *)
(* strips the cells and drops the rows without a question, and leaves      *)
(* Correct as the file has it; its init_quiz builds no option order, and   *)
(* render_question_row lists the options in source order (render_options   *)
(* with nothing stored).  The handlers of the quiz and results screens are *)
(* those of part_000.                                                      *)

\* load_questions of quiz_app.py: no coercion of Correct
qa_load_questions(raw) == SelectSeq(raw, LAMBDA r : r.Question # "")

\* init_quiz(mode, num_questions, shuffle) of quiz_app.py
qa_init_quiz(m, num, shuffle) ==
    \E q \in Selections(num, shuffle) :
        /\ q_indices' = q
        /\ idx' = 0
        /\ answers' = EmptyDict
        /\ correct_map' = CorrectMapOf(q)
        /\ score' = 0
        /\ finished' = FALSE
        /\ mode' = m
        /\ screen' = "quiz"
        /\ submitted' = {}
        /\ scored' = {}
        /\ flags' = {}
        /\ UNCHANGED <<opt_order, shuffle_options>>

\* render_home of quiz_app.py: the Start button
qa_Start ==
    /\ screen = "home"
    /\ \E m \in Modes, num \in NumberInputValues, sh \in BOOLEAN :
         /\ qa_init_quiz(m, num, sh)
         /\ last_op' = Op("start", num)
    /\ msg' = NoMsg
    /\ review' = <<>>
    /\ ever_correct' = {}
    /\ UNCHANGED df

qa_Init ==
    /\ df \in {qa_load_questions(raw) : raw \in RawTables}
    /\ screen = "home"
    /\ q_indices = <<>>
    /\ idx = 0
    /\ answers = EmptyDict
    /\ correct_map = EmptyDict
    /\ score = 0
    /\ finished = FALSE
    /\ mode = ""
    /\ submitted = {}
    /\ scored = {}
    /\ flags = {}
    /\ opt_order = EmptyDict
    /\ shuffle_options = FALSE
    /\ msg = NoMsg
    /\ review = <<>>
    /\ last_op = Op("init", 0)
    /\ ever_correct = {}

qa_Next ==
    \/ qa_Start
    \/ QuizHome
    \/ Jump
    \/ ToggleFlag
    \/ SubmitNoSelection
    \/ SubmitPractice
    \/ SubmitExam
    \/ Previous
    \/ Next_
    \/ Rerender
    \/ ResultsHome
    \/ Restart

SpecQuizApp == qa_Init /\ [][qa_Next]_vars

----------------------------------------------------------------------------
(* C26 -- Invalid key.  A question whose Correct is set but is none of the *)
(* option letters A-D counts as a question without key: a Practice check   *)
(* of it shows the "no key" information and scores nothing, and the        *)
(* results give it status No key, whatever was chosen or not, and no       *)
(* point.                                                                  *)

\* the stored key of the question is set and is no option letter
InvalidKey(gid) ==
    /\ gid \in DOMAIN correct_map
    /\ correct_map[gid] # ""
    /\ correct_map[gid] \notin Range(LETTERS)

C26_Check ==
    (Active /\ IsPractice(mode) /\ InvalidKey(Gid)
            /\ last_op'.name = "submit" /\ msg'.kind # "warning") =>
        /\ msg'.kind = "info"
        /\ score' = score
        /\ scored' = scored

C26_Results ==
    Finished =>
        /\ \A i \in 1..Len(q_indices) :
               InvalidKey(q_indices[i]) => review[i].Status = "No key"
        /\ score <= Cardinality({g \in Range(q_indices) : ~InvalidKey(g)})

\* C26: a set but invalid Correct is no key: never scored, reviewed No key
C26_InvalidKeyIsNoKey == [](C26_Results) /\ [][C26_Check]_vars

----------------------------------------------------------------------------
(* C27 -- The key is an option.  For every selected question with a key,   *)
(* the key is one of the letters of the stored option order, so that in    *)
(* Practice some check of the question is answered with Correct.           *)

C27_InOrder ==
    (screen # "home") =>
        \A g \in Range(q_indices) :
            correct_map[g] # "" => correct_map[g] \in Range(render_options(g))

C27_Answerable ==
    (Active /\ IsPractice(mode) /\ correct_map[Gid] # "") =>
        ENABLED (SubmitPractice /\ msg'.kind = "success")

\* C27: every key is a letter of its question's option order
C27_KeyInOptionOrder == C27_InOrder /\ C27_Answerable

----------------------------------------------------------------------------
(* C28 -- Recorded answers are options.  In every state of a session each  *)
(* recorded answer is a letter of the stored option order of its question, *)
(* and no step records a letter from outside it.                           *)

C28_Recorded ==
    (screen # "home") =>
        \A g \in DOMAIN answers :
            /\ g \in DOMAIN opt_order
            /\ answers[g] \in Range(opt_order[g])

C28_Step ==
    \A g \in DOMAIN answers' :
        (g \notin DOMAIN answers \/ answers'[g] # Get(answers, g, "")) =>
            /\ last_op'.name = "submit"
            /\ g = Gid
            /\ answers'[g] \in Range(opt_order[g])

\* C28: every recorded answer is a member of its question's option order
C28_AnswersInOptionOrder == [](C28_Recorded) /\ [][C28_Step]_vars

\* an answer recorded through a shuffled order, for a question without option A
C28_Witness ==
    /\ Active
    /\ last_op.name = "submit"
    /\ Gid \in DOMAIN answers
    /\ opt_order[Gid] = <<"C", "B">>
    /\ answers[Gid] = "C"

----------------------------------------------------------------------------
(* C29 -- Option order.  The stored order of each selected question holds  *)
(* each letter whose option text is not empty exactly once and no other    *)
(* letter; when the options are not shuffled, or there is one option only, *)
(* the letters are in the order A, B, C, D.                                *)

\* the letters of the question whose text is not empty
FilledLetters(gid) == {L \in Range(LETTERS) : Cell(Row(gid), L) # ""}

\* position of a letter in A, B, C, D
LetterPos(L) == CHOOSE i \in 1..Len(LETTERS) : LETTERS[i] = L

InSourceOrder(order) ==
    \A i, j \in 1..Len(order) : i < j => LetterPos(order[i]) < LetterPos(order[j])

C29_Order ==
    (screen # "home") =>
        \A g \in Range(q_indices) :
            /\ g \in DOMAIN opt_order
            /\ Range(opt_order[g]) = FilledLetters(g)
            /\ Len(opt_order[g]) = Cardinality(FilledLetters(g))
            /\ (~shuffle_options \/ Cardinality(FilledLetters(g)) = 1) =>
                   InSourceOrder(opt_order[g])

\* with the shuffle asked for, every order of two options can be stored
C29_Shuffled ==
    (screen = "home") =>
        \A m \in Modes, sq \in BOOLEAN :
            ENABLED (/\ StartWith(m, Len(df), sq, TRUE)
                     /\ \A g \in Range(q_indices') :
                            Len(opt_order'[g]) > 1 => ~InSourceOrder(opt_order'[g]))

\* C29: the option order is a permutation of the filled letters
C29_OptionOrder == C29_Order /\ C29_Shuffled

\* a shuffled session: a question of one option and one with B before A
C29_Witness ==
    /\ Active
    /\ shuffle_options
    /\ \E g, h \in Range(q_indices) :
          /\ opt_order[g] = <<"A">>
          /\ opt_order[h] = <<"B", "A">>

----------------------------------------------------------------------------
(* C30 -- Navigation frame.  A step of Next, Previous or a jump changes    *)
(* the position (and, for the Next that leaves the last question, the      *)
(* status) and nothing else of the session: answers, checks, scored ids,   *)
(* flags, selection and option orders are the same after it, and so is the *)
(* score, except that the results screen an Exam session ends on sets its  *)
(* compiled score.  A recorded answer is there, preselected, when the      *)
(* question is shown again.                                                *)

IsNavigation == last_op'.name \in {"next", "prev", "jump"}

C30_Frame ==
    IsNavigation =>
        /\ Active
        /\ answers' = answers
        /\ submitted' = submitted
        /\ scored' = scored
        /\ flags' = flags
        /\ q_indices' = q_indices
        /\ opt_order' = opt_order
        /\ UNCHANGED <<df, correct_map, mode, shuffle_options>>
        /\ IF Finished' /\ IsExam(mode)
           THEN score' = Cardinality(CorrectlyAnswered')
           ELSE score' = score
        /\ (last_op'.name # "next") => Active'

C30_Revisit ==
    (IsNavigation /\ Active' /\ Gid' \in DOMAIN answers) =>
        /\ answers'[Gid'] = answers[Gid']
        /\ ~NoChoice'

----------------------------------------------------------------------------
(* C31 -- Flag toggle.  The flag button of the current question adds its   *)
(* id to the flags when it is absent and removes it when it is present; a  *)
(* second toggle right after gives the flags back as they were.  The       *)
(* toggle changes nothing else, and it is offered on every question        *)
(* whatever its answer or check.                                           *)

IsToggle == last_op'.name = "flag"

C31_Effect ==
    IsToggle =>
        /\ Active
        /\ flags' = IF Gid \in flags THEN flags \ {Gid} ELSE flags \cup {Gid}
        /\ UNCHANGED <<answers, submitted, scored, score, idx, q_indices,
                       opt_order, correct_map, mode, screen, finished>>

\* after a toggle, the next toggle leads back to the flags before it
C31_Twice ==
    IsToggle =>
        \E F \in SUBSET Range(q_indices) :
            /\ F = flags
            /\ (ENABLED (ToggleFlag /\ flags' = F))'

C31_Offered == Active => ENABLED ToggleFlag

\* C31: the flag button toggles membership of the current id and nothing else
C31_FlagToggle == [](C31_Offered) /\ [][C31_Effect /\ C31_Twice]_vars

\* a toggle that removed the flag of an answered and checked question
C31_Witness ==
    /\ Active
    /\ last_op.name = "flag"
    /\ Gid \notin flags
    /\ Gid \in DOMAIN answers
    /\ Gid \in submitted
    /\ flags # {}

----------------------------------------------------------------------------
(* C32 -- Practice score.  In a Practice session the score is the number   *)
(* of scored ids, in every state: on the quiz screen and on the results,   *)
(* after Start and after Restart.                                          *)

\* C32: in Practice, score = number of scored ids
C32_PracticeScore ==
    (screen # "home" /\ IsPractice(mode)) => score = Cardinality(scored)

\* back on the first question with both questions scored
C32_Witness ==
    /\ Active
    /\ IsPractice(mode)
    /\ last_op.name = "submit"
    /\ msg.kind = "success"
    /\ idx = 0
    /\ Cardinality(scored) = 2
    /\ score = 2

----------------------------------------------------------------------------
(* C33 -- Nesting of the id sets.  In every state the scored ids are       *)
(* checked ids, the checked ids are answered ids, the answered ids are     *)
(* selected ids, and the flagged ids are selected ids.                     *)

\* C33: scored <= checked <= answered <= selected, and flags <= selected
C33_IdSets ==
    /\ scored \subseteq submitted
    /\ submitted \subseteq DOMAIN answers
    /\ DOMAIN answers \subseteq Range(q_indices)
    /\ flags \subseteq Range(q_indices)

\* two checks, one of them scored, and a flag on the question not scored
C33_Witness ==
    /\ Active
    /\ Cardinality(scored) = 1
    /\ Cardinality(submitted) = 2
    /\ DOMAIN answers = submitted
    /\ flags # {}
    /\ flags \cap scored = {}

----------------------------------------------------------------------------
(* C34 -- Score bounds.  In every state of a session, in each variant of   *)
(* the program and in both modes, the score is at least 0 and at most the  *)
(* number of selected questions, also after a question was revisited and   *)
(* submitted correctly a second time.                                      *)

\* C34: 0 <= score <= number of selected questions
C34_ScoreBounds ==
    (q_indices # <<>>) => (0 <= score /\ score <= Len(q_indices))

----------------------------------------------------------------------------
(* C35 -- Practice results.  On the results of a Practice session the      *)
(* score is at least the number of review rows with status Correct, and    *)
(* every such row is the row of a scored question: the score counts the    *)
(* first correct check of a question, the rows show its latest answer.     *)

\* the positions of the review rows with status Correct
CorrectRows == {i \in 1..Len(review) : review[i].Status = "Correct"}

\* C35: in Practice, score >= number of Correct rows, each of a scored id
C35_PracticeResults ==
    (Finished /\ IsPractice(mode)) =>
        /\ Len(review) = Len(q_indices)
        /\ score >= Cardinality(CorrectRows)
        /\ \A i \in CorrectRows : q_indices[i] \in scored

\* results where a scored question shows a later, wrong answer
C35_Witness ==
    /\ Finished
    /\ IsPractice(mode)
    /\ CorrectRows # {}
    /\ score > Cardinality(CorrectRows)
    /\ \E i \in 1..Len(review) :
          review[i].Status = "Incorrect" /\ q_indices[i] \in scored

----------------------------------------------------------------------------
(* The program with question files that may hold a question without any    *)
(* option (load_questions keeps such a row: it drops a row only when its   *)
(* Question is blank), and with a user who keeps coming back to the check  *)
(* and to Next on every question.                                          *)

\* a question all of whose option cells are blank
NoOptionRow ==
    [Question |-> "q", A |-> "", B |-> "", C |-> "", D |-> "", Correct |-> "A"]

\* question files in which one row has no option
NoOptionFiles ==
    {[i \in 1..Len(t) |-> IF i = k THEN NoOptionRow ELSE t[i]] :
        t \in {RawTable(0, n) : n \in 1..MaxTotal}, k \in 1..MaxTotal}

InitProgress ==
    /\ df \in {load_questions(raw) : raw \in RawTables \cup NoOptionFiles}
    /\ screen = "home"
    /\ q_indices = <<>>
    /\ idx = 0
    /\ answers = EmptyDict
    /\ correct_map = EmptyDict
    /\ score = 0
    /\ finished = FALSE
    /\ mode = ""
    /\ submitted = {}
    /\ scored = {}
    /\ flags = {}
    /\ opt_order = EmptyDict
    /\ shuffle_options = FALSE
    /\ msg = NoMsg
    /\ review = <<>>
    /\ last_op = Op("init", 0)
    /\ ever_correct = {}

\* on each position, a check or a Next that is possible again and again is
\* pressed in the end
UserKeepsGoing ==
    \A k \in 0..(MaxTotal - 1) :
        /\ SF_vars(SubmitPractice /\ idx = k)
        /\ SF_vars(Next_ /\ idx = k)

SpecProgress == InitProgress /\ [][Next]_vars /\ UserKeepsGoing

----------------------------------------------------------------------------
(* C36 -- No dead end.  When every selected question has an option, the    *)
(* results are reachable from every question of a session, in both modes:  *)
(* each question offers a step that brings the session closer to the       *)
(* results (a check, then Next, in Practice; Next or a submit in Exam), so *)
(* the user who does not leave by Home and keeps checking and pressing     *)
(* Next gets there.  Home is one press away from every screen.             *)

\* every selected question has at least one option
AllHaveOptions == \A g \in Range(q_indices) : Len(render_options(g)) > 0

\* the presses left before the results: two for each question from the
\* current one on (check, Next), one less when the current one is checked
Distance ==
    2 * (Len(q_indices) - idx)
        - (IF IsPractice(mode) /\ Gid \in submitted THEN 1 ELSE 0)

\* after the step the session is finished, or nearer to it
Closer ==
    \/ Finished'
    \/ Active' /\ AllHaveOptions' /\ Distance' < Distance

C36_HomeOffered ==
    /\ Active => ENABLED (QuizHome /\ screen' = "home")
    /\ Finished => ENABLED (ResultsHome /\ screen' = "home")

C36_Practice ==
    (Active /\ AllHaveOptions /\ IsPractice(mode)) =>
        IF Gid \in submitted
        THEN ENABLED (Next_ /\ Closer)
        ELSE ENABLED (SubmitPractice /\ Closer)

C36_Exam ==
    (Active /\ AllHaveOptions /\ IsExam(mode)) =>
        /\ ENABLED (Next_ /\ Closer)
        /\ ENABLED (SubmitExam /\ Closer)

\* C36: every question offers a step towards the results, every screen Home
C36_NoDeadEnd == C36_HomeOffered /\ C36_Practice /\ C36_Exam

\* the same for the user who keeps going: the session ends, on the results or
\* by Home
C36_LeadsToResults ==
    (Active /\ AllHaveOptions) ~> (Finished \/ screen = "home")

\* the results of a Practice session of two questions, reached by Next
C36_Witness ==
    /\ Finished
    /\ IsPractice(mode)
    /\ Len(q_indices) = 2
    /\ AllHaveOptions
    /\ last_op.name = "next"

====
